---- MODULE Spec2Model ----
(***************************************************************************)
(* Model of bronzebeard/asm_v3.py: the RISC-V instruction encoders, the    *)
(* hi/lo relocation helpers, the program builder (parse_assembly) and the  *)
(* five passes (resolve_aligns, resolve_labels, resolve_immediates,        *)
(* resolve_relocations, assemble).                                         *)
(*                                                                         *)
(* The module text uses namedtuple without importing it; the model reads   *)
(* it as collections.namedtuple, i.e. items are immutable tuples whose     *)
(* len() is their number of fields.                                        *)
(*                                                                         *)
(* Python integers are unbounded.  Values that need more than 31 bits are  *)
(* kept exactly: a 32-bit instruction word is a vector of 32 bits, and an  *)
(* address handed to relocate_hi / relocate_lo is a pair of limbs          *)
(* [q, r] standing for q * 4096 + r with 0 <= r < 4096.                    *)
(***************************************************************************)
EXTENDS Integers, Sequences, FiniteSets, TLC

VARIABLES call, result,
          items, program, aligned, labelled, labels, resolved, relocated,
          output, pc, err

fnVars == <<call, result>>
pipeVars == <<items, program, aligned, labelled, labels, resolved, relocated,
              output, pc, err>>
vars == <<call, result, items, program, aligned, labelled, labels, resolved,
          relocated, output, pc, err>>

(***************************************************************************)
(* Bounds of the model.                                                    *)
(***************************************************************************)
\* i_type is called with every immediate in -MaxImmI .. MaxImmI
MaxImmI == 2052
\* b_type is called with every immediate in -MaxImmB .. MaxImmB
MaxImmB == 4100
\* relocate_hi / relocate_lo: width of the windows of upper limbs around
\* 0, 2^19 and 2^20 - 1
MaxQ == 2
\* longest program handed to the passes
MaxLen == 3
\* longest list of tokenized lines handed to parse_assembly
MaxLines == 2

(***************************************************************************)
(* Integer and bit helpers (Python int semantics).                         *)
(***************************************************************************)
\* bit i of the two's-complement integer n, |n| < 2^31
Bit(n, i) == IF i <= 30 THEN (n \div (2^i)) % 2 ELSE IF n < 0 THEN 1 ELSE 0

\* a & b for b >= 0 (a may be negative: infinite two's complement)
RECURSIVE BitAnd(_, _)
BitAnd(a, b) ==
    IF b = 0 THEN 0
    ELSE (a % 2) * (b % 2) + 2 * BitAnd(a \div 2, b \div 2)

\* ctypes.c_uint32(n): the 32 low bits of n
c_uint32(n) == [i \in 0..31 |-> Bit(n, i)]

RECURSIVE UIntAndFrom(_, _, _)
UIntAndFrom(u, mask, i) ==
    IF i > 30 \/ mask \div (2^i) = 0 THEN 0
    ELSE u[i] * Bit(mask, i) * (2^i) + UIntAndFrom(u, mask, i + 1)

\* c_uint32(n).value & mask, for 0 <= mask < 2^31
UIntAnd(u, mask) == UIntAndFrom(u, mask, 0)

\* the 32-bit accumulator `code = 0`
ZeroWord == [i \in 0..31 |-> 0]

\* code |= x << s, for 0 <= x and x << s < 2^32
OrShl(code, x, s) ==
    [i \in 0..31 |-> IF i >= s /\ Bit(x, i - s) = 1 THEN 1 ELSE code[i]]

RECURSIVE ByteFrom(_, _, _)
ByteFrom(code, k, j) ==
    IF j > 7 THEN 0 ELSE code[8 * k + j] * (2^j) + ByteFrom(code, k, j + 1)

\* struct.pack('<I', code): four bytes, least significant first
PackLE32(code) == [k \in 1..4 |-> ByteFrom(code, k - 1, 0)]

\* bit i (0..31) of the little-endian word held in four bytes
WordBit(bytes, i) == (bytes[(i \div 8) + 1] \div (2^(i % 8))) % 2

\* bits lo..hi of the word as a number, hi - lo < 31
RECURSIVE WordField(_, _, _)
WordField(bytes, lo, hi) ==
    IF lo > hi THEN 0
    ELSE WordBit(bytes, lo) + 2 * WordField(bytes, lo + 1, hi)

(***************************************************************************)
(* Registers.                                                              *)
(***************************************************************************)
\* a register operand is a name (str) or a number (int, or a numeral str)
RegName(s) == [name |-> s]
RegNum(n) == [num |-> n]

REGISTERS ==
    "x0" :> 0 @@ "zero" :> 0 @@ "x1" :> 1 @@ "ra" :> 1 @@
    "x2" :> 2 @@ "sp" :> 2 @@ "x3" :> 3 @@ "gp" :> 3 @@
    "x4" :> 4 @@ "tp" :> 4 @@ "x5" :> 5 @@ "t0" :> 5 @@
    "x6" :> 6 @@ "t1" :> 6 @@ "x7" :> 7 @@ "t2" :> 7 @@
    "x8" :> 8 @@ "s0" :> 8 @@ "fp" :> 8 @@ "x9" :> 9 @@ "s1" :> 9 @@
    "x10" :> 10 @@ "a0" :> 10 @@ "x11" :> 11 @@ "a1" :> 11 @@
    "x12" :> 12 @@ "a2" :> 12 @@ "x13" :> 13 @@ "a3" :> 13 @@
    "x14" :> 14 @@ "a4" :> 14 @@ "x15" :> 15 @@ "a5" :> 15 @@
    "x16" :> 16 @@ "a6" :> 16 @@ "x17" :> 17 @@ "a7" :> 17 @@
    "x18" :> 18 @@ "s2" :> 18 @@ "x19" :> 19 @@ "s3" :> 19 @@
    "x20" :> 20 @@ "s4" :> 20 @@ "x21" :> 21 @@ "s5" :> 21 @@
    "x22" :> 22 @@ "s6" :> 22 @@ "x23" :> 23 @@ "s7" :> 23 @@
    "x24" :> 24 @@ "s8" :> 24 @@ "x25" :> 25 @@ "s9" :> 25 @@
    "x26" :> 26 @@ "s10" :> 26 @@ "x27" :> 27 @@ "s11" :> 27 @@
    "x28" :> 28 @@ "t3" :> 28 @@ "x29" :> 29 @@ "t4" :> 29 @@
    "x30" :> 30 @@ "t5" :> 30 @@ "x31" :> 31 @@ "t6" :> 31

\* the index of the register, or -1 where the code raises ValueError
resolve_register(reg) ==
    IF "name" \in DOMAIN reg
    THEN IF reg.name \in DOMAIN REGISTERS THEN REGISTERS[reg.name] ELSE -1
    ELSE IF reg.num < 0 \/ reg.num > 31 THEN -1 ELSE reg.num

ValidReg(reg) == resolve_register(reg) >= 0

(***************************************************************************)
(* Instruction encoders.  A result is [err, bytes]: err = "none" and the   *)
(* four packed bytes, or the ValueError raised ("register", "range",       *)
(* "parity", after the message) and no bytes.                              *)
(***************************************************************************)
Encoded(code) == [err |-> "none", bytes |-> PackLE32(code)]
Raised(e) == [err |-> e, bytes |-> <<>>]

r_type(rd, rs1, rs2, opcode, funct3, funct7) ==
    IF ~ValidReg(rd) \/ ~ValidReg(rs1) \/ ~ValidReg(rs2) THEN Raised("register")
    ELSE LET c1 == OrShl(ZeroWord, opcode, 0)
             c2 == OrShl(c1, resolve_register(rd), 7)
             c3 == OrShl(c2, funct3, 12)
             c4 == OrShl(c3, resolve_register(rs1), 15)
             c5 == OrShl(c4, resolve_register(rs2), 20)
             c6 == OrShl(c5, funct7, 25)
         IN  Encoded(c6)

i_type_wide(rd, rs1, imm, opcode, funct3) ==
    IF ~ValidReg(rd) \/ ~ValidReg(rs1) THEN Raised("register")
    ELSE IF imm < -2048 \/ imm > 2048 THEN Raised("range")
    ELSE LET m  == UIntAnd(c_uint32(imm), 4095)
             c1 == OrShl(ZeroWord, opcode, 0)
             c2 == OrShl(c1, resolve_register(rd), 7)
             c3 == OrShl(c2, funct3, 12)
             c4 == OrShl(c3, resolve_register(rs1), 15)
             c5 == OrShl(c4, m, 20)
         IN  Encoded(c5)

i_type(rd, rs1, imm, opcode, funct3) ==
    IF ~ValidReg(rd) \/ ~ValidReg(rs1) THEN Raised("register")
    ELSE IF imm < -2048 \/ imm > 2047 THEN Raised("range")
    ELSE LET m  == UIntAnd(c_uint32(imm), 4095)
             c1 == OrShl(ZeroWord, opcode, 0)
             c2 == OrShl(c1, resolve_register(rd), 7)
             c3 == OrShl(c2, funct3, 12)
             c4 == OrShl(c3, resolve_register(rs1), 15)
             c5 == OrShl(c4, m, 20)
         IN  Encoded(c5)

b_type_noparity(rs1, rs2, imm, opcode, funct3) ==
    IF ~ValidReg(rs1) \/ ~ValidReg(rs2) THEN Raised("register")
    ELSE IF imm < -4096 \/ imm > 4095 THEN Raised("range")
    ELSE LET half    == imm \div 2
             m       == UIntAnd(c_uint32(half), 4095)
             imm_12  == BitAnd(m \div (2^11), 1)
             imm_11  == BitAnd(m \div (2^10), 1)
             imm_10_5 == BitAnd(m \div (2^4), 63)
             imm_4_1 == BitAnd(m, 15)
             c1 == OrShl(ZeroWord, opcode, 0)
             c2 == OrShl(c1, imm_11, 7)
             c3 == OrShl(c2, imm_4_1, 8)
             c4 == OrShl(c3, funct3, 12)
             c5 == OrShl(c4, resolve_register(rs1), 15)
             c6 == OrShl(c5, resolve_register(rs2), 20)
             c7 == OrShl(c6, imm_10_5, 25)
             c8 == OrShl(c7, imm_12, 31)
         IN  Encoded(c8)

b_type(rs1, rs2, imm, opcode, funct3) ==
    IF ~ValidReg(rs1) \/ ~ValidReg(rs2) THEN Raised("register")
    ELSE IF imm < -4096 \/ imm > 4095 THEN Raised("range")
    ELSE IF imm % 2 = 1 THEN Raised("parity")
    ELSE LET half    == imm \div 2
             m       == UIntAnd(c_uint32(half), 4095)
             imm_12  == BitAnd(m \div (2^11), 1)
             imm_11  == BitAnd(m \div (2^10), 1)
             imm_10_5 == BitAnd(m \div (2^4), 63)
             imm_4_1 == BitAnd(m, 15)
             c1 == OrShl(ZeroWord, opcode, 0)
             c2 == OrShl(c1, imm_11, 7)
             c3 == OrShl(c2, imm_4_1, 8)
             c4 == OrShl(c3, funct3, 12)
             c5 == OrShl(c4, resolve_register(rs1), 15)
             c6 == OrShl(c5, resolve_register(rs2), 20)
             c7 == OrShl(c6, imm_10_5, 25)
             c8 == OrShl(c7, imm_12, 31)
         IN  Encoded(c8)

(***************************************************************************)
(* Mnemonic constants: the partial applications of the encoders.  A name   *)
(* is the sequence of its characters, as the program builder sees tokens.  *)
(***************************************************************************)
JALR == [name |-> <<"j", "a", "l", "r">>, opcode |-> \b1100111, funct3 |-> \b000]
BEQ == [name |-> <<"b", "e", "q">>, opcode |-> \b1100011, funct3 |-> \b000]
BNE == [name |-> <<"b", "n", "e">>, opcode |-> \b1100011, funct3 |-> \b001]
BLT == [name |-> <<"b", "l", "t">>, opcode |-> \b1100011, funct3 |-> \b100]
BGE == [name |-> <<"b", "g", "e">>, opcode |-> \b1100011, funct3 |-> \b101]
BLTU == [name |-> <<"b", "l", "t", "u">>, opcode |-> \b1100011, funct3 |-> \b110]
BGEU == [name |-> <<"b", "g", "e", "u">>, opcode |-> \b1100011, funct3 |-> \b111]
LB == [name |-> <<"l", "b">>, opcode |-> \b0000011, funct3 |-> \b000]
LH == [name |-> <<"l", "h">>, opcode |-> \b0000011, funct3 |-> \b001]
LW == [name |-> <<"l", "w">>, opcode |-> \b0000011, funct3 |-> \b010]
LBU == [name |-> <<"l", "b", "u">>, opcode |-> \b0000011, funct3 |-> \b100]
LHU == [name |-> <<"l", "h", "u">>, opcode |-> \b0000011, funct3 |-> \b101]
ADDI == [name |-> <<"a", "d", "d", "i">>, opcode |-> \b0010011, funct3 |-> \b000]
SLTI == [name |-> <<"s", "l", "t", "i">>, opcode |-> \b0010011, funct3 |-> \b010]
SLTIU == [name |-> <<"s", "l", "t", "i", "u">>, opcode |-> \b0010011, funct3 |-> \b011]
XORI == [name |-> <<"x", "o", "r", "i">>, opcode |-> \b0010011, funct3 |-> \b100]
ORI == [name |-> <<"o", "r", "i">>, opcode |-> \b0010011, funct3 |-> \b110]
ANDI == [name |-> <<"a", "n", "d", "i">>, opcode |-> \b0010011, funct3 |-> \b111]
SLLI == [name |-> <<"s", "l", "l", "i">>, opcode |-> \b0010011, funct3 |-> \b001, funct7 |-> \b0000000]
SRLI == [name |-> <<"s", "r", "l", "i">>, opcode |-> \b0010011, funct3 |-> \b101, funct7 |-> \b0000000]
SRAI == [name |-> <<"s", "r", "a", "i">>, opcode |-> \b0010011, funct3 |-> \b101, funct7 |-> \b0100000]
ADD == [name |-> <<"a", "d", "d">>, opcode |-> \b0110011, funct3 |-> \b000, funct7 |-> \b0000000]
SUB == [name |-> <<"s", "u", "b">>, opcode |-> \b0110011, funct3 |-> \b000, funct7 |-> \b0100000]
SLL == [name |-> <<"s", "l", "l">>, opcode |-> \b0110011, funct3 |-> \b001, funct7 |-> \b0000000]
SLT == [name |-> <<"s", "l", "t">>, opcode |-> \b0110011, funct3 |-> \b010, funct7 |-> \b0000000]
SLTU == [name |-> <<"s", "l", "t", "u">>, opcode |-> \b0110011, funct3 |-> \b011, funct7 |-> \b0000000]
XOR == [name |-> <<"x", "o", "r">>, opcode |-> \b0110011, funct3 |-> \b100, funct7 |-> \b0000000]
SRL == [name |-> <<"s", "r", "l">>, opcode |-> \b0110011, funct3 |-> \b101, funct7 |-> \b0000000]
SRA == [name |-> <<"s", "r", "a">>, opcode |-> \b0110011, funct3 |-> \b101, funct7 |-> \b0100000]
OR == [name |-> <<"o", "r">>, opcode |-> \b0110011, funct3 |-> \b110, funct7 |-> \b0000000]
AND == [name |-> <<"a", "n", "d">>, opcode |-> \b0110011, funct3 |-> \b111, funct7 |-> \b0000000]

R_TYPE_INSTRUCTIONS == {SLLI, SRLI, SRAI, ADD, SUB, SLL, SLT, SLTU, XOR, SRL, SRA, OR, AND}

I_TYPE_INSTRUCTIONS == {JALR, LB, LH, LW, LBU, LHU, ADDI, SLTI, SLTIU, XORI, ORI, ANDI}

B_TYPE_INSTRUCTIONS == {BEQ, BNE, BLT, BGE, BLTU, BGEU}

(***************************************************************************)
(* Hi / Lo relocation.  The argument is a limb pair [q, r] = q * 4096 + r. *)
(***************************************************************************)
Wide(q, r) == [q |-> q, r |-> r]

sign_extend(value, bits) ==
    LET sign_bit == 2^(bits - 1)
    IN  BitAnd(value, sign_bit - 1) - BitAnd(value, sign_bit)

relocate_hi_plain(imm) ==
    sign_extend(BitAnd(imm.q, 1048575), 20)

relocate_hi(imm) ==
    LET imm2 == IF BitAnd(imm.r, 2048) # 0 THEN Wide(imm.q + 1, imm.r) ELSE imm
    IN  sign_extend(BitAnd(imm2.q, 1048575), 20)

relocate_lo(imm) == sign_extend(BitAnd(imm.r, 4095), 12)

(***************************************************************************)
(* Calls of the pure functions: each action applies one function of the    *)
(* module to arguments drawn from the bounded sets below and records the   *)
(* call and what it returned or raised.                                    *)
(***************************************************************************)
RegArgs == {RegName("x1"), RegName("x2"), RegName("x3"), RegName("t6"),
            RegName("bogus"), RegNum(0), RegNum(31), RegNum(32)}
\* register pairs for the encoders that take an immediate
ImmRegArgs == {<<RegName("x1"), RegNum(31)>>, <<RegNum(0), RegName("sp")>>,
               <<RegNum(32), RegName("bogus")>>}

\* upper limbs of the 32-bit values handed to relocate_hi / relocate_lo
UpperLimbs ==
    (0..MaxQ) \cup ((524288 - MaxQ)..(524288 + MaxQ))
              \cup ((1048575 - MaxQ)..1048575) \cup {74565}

NoCall == [fn |-> "none"]

InitFn ==
    /\ call = NoCall
    /\ result = Raised("none")

Call_r_type ==
    /\ call = NoCall
    /\ \E rd \in RegArgs, rs1 \in RegArgs, rs2 \in RegArgs, ins \in R_TYPE_INSTRUCTIONS :
        /\ call' = [fn |-> "r_type", rd |-> rd, rs1 |-> rs1, rs2 |-> rs2, ins |-> ins]
        /\ result' = r_type(rd, rs1, rs2, ins.opcode, ins.funct3, ins.funct7)
        /\ UNCHANGED pipeVars

Call_i_type ==
    /\ call = NoCall
    /\ \E regs \in ImmRegArgs, imm \in (-MaxImmI)..MaxImmI, ins \in I_TYPE_INSTRUCTIONS :
        /\ call' = [fn |-> "i_type", rd |-> regs[1], rs1 |-> regs[2], imm |-> imm,
                    ins |-> ins]
        /\ result' = i_type(regs[1], regs[2], imm, ins.opcode, ins.funct3)
        /\ UNCHANGED pipeVars

Call_b_type ==
    /\ call = NoCall
    /\ \E regs \in ImmRegArgs, imm \in (-MaxImmB)..MaxImmB, ins \in B_TYPE_INSTRUCTIONS :
        /\ call' = [fn |-> "b_type", rs1 |-> regs[1], rs2 |-> regs[2], imm |-> imm,
                    ins |-> ins]
        /\ result' = b_type(regs[1], regs[2], imm, ins.opcode, ins.funct3)
        /\ UNCHANGED pipeVars

Call_relocate ==
    /\ call = NoCall
    /\ \E q \in UpperLimbs, r \in 0..4095 :
        /\ call' = [fn |-> "relocate", imm |-> Wide(q, r)]
        /\ result' = [hi |-> relocate_hi(Wide(q, r)), lo |-> relocate_lo(Wide(q, r))]
        /\ UNCHANGED pipeVars

NextEnc == Call_r_type \/ Call_i_type \/ Call_b_type

InitPipe ==
    /\ items = <<>>
    /\ program = <<>>
    /\ aligned = <<>>
    /\ labelled = <<>>
    /\ labels = <<>>
    /\ resolved = <<>>
    /\ relocated = <<>>
    /\ output = <<>>
    /\ pc = "start"
    /\ err = "none"

Init == InitFn /\ InitPipe

\* the encoders, called once with arbitrary arguments
SpecEnc == Init /\ [][NextEnc]_vars

\* relocate_hi and relocate_lo, called once on an arbitrary 32-bit value
SpecReloc == Init /\ [][Call_relocate]_vars

(***************************************************************************)
(* Properties of the pure functions (SpecReloc for C1, SpecEnc for C7, C8). *)
(***************************************************************************)

\* C1: for every 32-bit value v, hi = relocate_hi(v) and lo = relocate_lo(v)
\* satisfy (hi * 4096 + lo) mod 2^32 = v, with hi in -524288..524287 and
\* lo in -2048..2047, also when bit 11 of v is set.  In limbs,
\* hi * 4096 + lo = (hi + lo \div 4096) * 4096 + lo % 4096.
C1_HiLoRoundTrip ==
    call.fn = "relocate" =>
        LET hi == result.hi
            lo == result.lo
        IN  /\ hi \in -524288..524287
            /\ lo \in -2048..2047
            /\ Wide((hi + (lo \div 4096)) % 1048576, lo % 4096) = call.imm

\* a value with bit 11 set whose corrected upper part wraps past 2^32
C1_Witness ==
    /\ call.fn = "relocate"
    /\ call.imm = Wide(1048575, 2049)
    /\ result = [hi |-> 0, lo |-> -2047]

\* C7: with valid registers, b_type returns a word exactly when the immediate
\* is even and -4096 <= imm <= 4095; an odd immediate inside the range raises
\* the parity error, an immediate outside the range raises the range error,
\* neither produces a word; an accepted immediate is stored as imm[12] at
\* bit 31, imm[10:5] at bits 25..30, imm[4:1] at bits 8..11, imm[11] at bit 7.
C7_BTypeImmediate ==
    (call.fn = "b_type" /\ ValidReg(call.rs1) /\ ValidReg(call.rs2)) =>
        LET imm == call.imm
            inRange == -4096 <= imm /\ imm <= 4095
            even == imm % 2 = 0
        IN  /\ (result.err = "none") <=> (inRange /\ even)
            /\ ~inRange => result = Raised("range")
            /\ (inRange /\ ~even) => result = Raised("parity")
            /\ (inRange /\ even) =>
                /\ Len(result.bytes) = 4
                /\ WordBit(result.bytes, 31) = Bit(imm, 12)
                /\ WordField(result.bytes, 25, 30) = (imm \div 32) % 64
                /\ WordField(result.bytes, 8, 11) = (imm \div 2) % 16
                /\ WordBit(result.bytes, 7) = Bit(imm, 11)

\* a negative even branch immediate that encodes
C7_Witness ==
    /\ call.fn = "b_type"
    /\ call.imm = -4096
    /\ result.err = "none"
    /\ WordBit(result.bytes, 31) = 1

\* C8: with valid registers, i_type returns a word exactly when
\* -2048 <= imm <= 2047 and raises the range error otherwise; bits 20..31 of
\* the word are imm mod 4096 and bits 0..19 are
\* opcode | rd << 7 | funct3 << 12 | rs1 << 15 (the fields do not overlap,
\* so the OR is their sum).
C8_ITypeImmediate ==
    (call.fn = "i_type" /\ ValidReg(call.rd) /\ ValidReg(call.rs1)) =>
        LET imm == call.imm
            inRange == -2048 <= imm /\ imm <= 2047
        IN  /\ (result.err = "none") <=> inRange
            /\ ~inRange => result = Raised("range")
            /\ inRange =>
                /\ Len(result.bytes) = 4
                /\ WordField(result.bytes, 20, 31) = imm % 4096
                /\ WordField(result.bytes, 0, 19) =
                       call.ins.opcode + resolve_register(call.rd) * 128
                       + call.ins.funct3 * 4096
                       + resolve_register(call.rs1) * 32768

\* the immediate -1 is stored as 0xFFF
C8_Witness ==
    /\ call.fn = "i_type"
    /\ call.imm = -1
    /\ result.err = "none"
    /\ WordField(result.bytes, 20, 31) = 4095

(***************************************************************************)
(* Program items and immediates (the namedtuples).  Each is a record with  *)
(* a type tag and the namedtuple's fields; a str is the sequence of its    *)
(* characters, bytes the sequence of their values.                         *)
(***************************************************************************)
RTypeInstruction(name, rd, rs1, rs2) ==
    [type |-> "RTypeInstruction", name |-> name, rd |-> rd, rs1 |-> rs1, rs2 |-> rs2]
ITypeInstruction(name, rd, rs1, imm) ==
    [type |-> "ITypeInstruction", name |-> name, rd |-> rd, rs1 |-> rs1, imm |-> imm]
STypeInstruction(name, rs1, rs2, imm) ==
    [type |-> "STypeInstruction", name |-> name, rs1 |-> rs1, rs2 |-> rs2, imm |-> imm]
BTypeInstruction(name, rs1, rs2, imm) ==
    [type |-> "BTypeInstruction", name |-> name, rs1 |-> rs1, rs2 |-> rs2, imm |-> imm]
UTypeInstruction(name, rd, imm) ==
    [type |-> "UTypeInstruction", name |-> name, rd |-> rd, imm |-> imm]
JTypeInstruction(name, rd, imm) ==
    [type |-> "JTypeInstruction", name |-> name, rd |-> rd, imm |-> imm]
Label(name) == [type |-> "Label", name |-> name]
Align(alignment) == [type |-> "Align", alignment |-> alignment]
Blob(data) == [type |-> "Blob", data |-> data]
Pack(fmt, imm) == [type |-> "Pack", fmt |-> fmt, imm |-> imm]
Position(label, value) == [type |-> "Position", label |-> label, value |-> value]
Offset(label) == [type |-> "Offset", label |-> label]
Hi(value) == [type |-> "Hi", value |-> value]
Lo(value) == [type |-> "Lo", value |-> value]
\* a plain Python int used as an immediate
Literal(n) == [type |-> "int", n |-> n]

\* len(item): the number of fields of the namedtuple
len(item) == Cardinality(DOMAIN item) - 1

\* struct.calcsize(fmt) for the formats used
calcsize(fmt) ==
    CASE fmt = "<B" -> 1
      [] fmt = "<H" -> 2
      [] fmt = "<I" -> 4
      [] fmt = "<Q" -> 8

\* b'\x00' * padding
ZeroBytes(padding) == [k \in 1..padding |-> 0]

\* what a pass returns, or the exception it raises
Returned(out) == [err |-> "none", out |-> out]
RaisedIn(e) == [err |-> e, out |-> <<>>]

(***************************************************************************)
(* Pass 1: resolve_aligns.                                                 *)
(***************************************************************************)
RECURSIVE resolve_aligns_from(_, _, _, _)
resolve_aligns_from(prog, i, position, out) ==
    IF i > Len(prog) THEN out
    ELSE LET item == prog[i] IN
         IF item.type = "Align"
         THEN LET padding == item.alignment - (position % item.alignment) IN
              IF padding = item.alignment
              THEN resolve_aligns_from(prog, i + 1, position, out)
              ELSE resolve_aligns_from(prog, i + 1, position + padding,
                                       Append(out, Blob(ZeroBytes(padding))))
         ELSE IF item.type = "Blob"
         THEN resolve_aligns_from(prog, i + 1, position + Len(item.data), Append(out, item))
         ELSE IF item.type = "Pack"
         THEN resolve_aligns_from(prog, i + 1, position + calcsize(item.fmt), Append(out, item))
         ELSE resolve_aligns_from(prog, i + 1, position + 4, Append(out, item))

resolve_aligns(prog) == resolve_aligns_from(prog, 1, 0, <<>>)

(***************************************************************************)
(* Pass 2: resolve_labels.  Returns [output, labels]; labels maps a name   *)
(* to a position, a later assignment replacing an earlier one.             *)
(***************************************************************************)
RECURSIVE resolve_labels_from(_, _, _, _, _)
resolve_labels_from(prog, i, position, out, table) ==
    IF i > Len(prog) THEN [output |-> out, labels |-> table]
    ELSE LET item == prog[i] IN
         IF item.type = "Label"
         THEN resolve_labels_from(prog, i + 1, position, out,
                                  (item.name :> position) @@ table)
         ELSE resolve_labels_from(prog, i + 1, position + len(item),
                                  Append(out, item), table)

resolve_labels(prog) == resolve_labels_from(prog, 1, 0, <<>>, <<>>)

(***************************************************************************)
(* Pass 3: resolve_immediates.  The items are namedtuples: Position has    *)
(* the fields (label, value), Hi and Lo the field (value), and no field    *)
(* can be assigned.  So imm.base and item.imm.imm raise AttributeError,    *)
(* and so does the assignment item.imm = dest - position, after the label  *)
(* lookup (KeyError when the label is not in the table).                   *)
(***************************************************************************)
immediates == {"ITypeInstruction", "STypeInstruction", "BTypeInstruction",
               "UTypeInstruction", "JTypeInstruction", "Pack"}

\* the exception raised while handling one item, "none" if it passes through
resolve_immediate_item(item, table, position) ==
    IF item.type \notin immediates THEN "none"
    ELSE LET imm == item.imm IN
         IF imm.type = "Position"
         THEN IF imm.label \notin DOMAIN table THEN "KeyError"
              ELSE "AttributeError"          \* base = imm.base
         ELSE IF imm.type = "Offset"
         THEN IF imm.label \notin DOMAIN table THEN "KeyError"
              ELSE "AttributeError"          \* item.imm = dest - position
         ELSE IF imm.type \in {"Hi", "Lo"}
         THEN "AttributeError"               \* imm = item.imm.imm
         ELSE "none"

RECURSIVE resolve_immediates_from(_, _, _, _, _)
resolve_immediates_from(prog, table, i, position, out) ==
    IF i > Len(prog) THEN Returned(out)
    ELSE LET item == prog[i]
             e == resolve_immediate_item(item, table, position)
         IN  IF e # "none" THEN RaisedIn(e)
             ELSE resolve_immediates_from(prog, table, i + 1, position + len(item),
                                          Append(out, item))

resolve_immediates(prog, table) == resolve_immediates_from(prog, table, 1, 0, <<>>)

(***************************************************************************)
(* Pass 4: resolve_relocations.  item.imm.imm raises AttributeError before *)
(* relocate_hi / relocate_lo is entered.                                   *)
(***************************************************************************)
RECURSIVE resolve_relocations_from(_, _, _)
resolve_relocations_from(prog, i, out) ==
    IF i > Len(prog) THEN Returned(out)
    ELSE LET item == prog[i] IN
         IF item.type \in immediates /\ item.imm.type \in {"Hi", "Lo"}
         THEN RaisedIn("AttributeError")
         ELSE resolve_relocations_from(prog, i + 1, Append(out, item))

resolve_relocations(prog) == resolve_relocations_from(prog, 1, <<>>)

(***************************************************************************)
(* Pass 5: assemble.  bytes(item) of a tuple takes each field as a byte    *)
(* value: the first field of every instruction, Label, Blob and Pack is a  *)
(* str or bytes, which raises TypeError; only Align holds a lone int.      *)
(***************************************************************************)
bytes_of(item) ==
    IF item.type = "Align"
    THEN IF item.alignment \in 0..255 THEN Returned(<<item.alignment>>)
         ELSE RaisedIn("ValueError")
    ELSE RaisedIn("TypeError")

RECURSIVE assemble_from(_, _, _)
assemble_from(prog, i, out) ==
    IF i > Len(prog) THEN Returned(out)
    ELSE LET b == bytes_of(prog[i]) IN
         IF b.err # "none" THEN b
         ELSE assemble_from(prog, i + 1, out \o b.out)

assemble(prog) == assemble_from(prog, 1, <<>>)

(***************************************************************************)
(* Program builder: parse_assembly over tokenized lines.  A token is the   *)
(* sequence of its characters.                                             *)
(***************************************************************************)
UpperCase == <<"A", "B", "C", "D", "E", "F", "G", "H", "I", "J", "K", "L", "M",
               "N", "O", "P", "Q", "R", "S", "T", "U", "V", "W", "X", "Y", "Z">>
LowerCase == <<"a", "b", "c", "d", "e", "f", "g", "h", "i", "j", "k", "l", "m",
               "n", "o", "p", "q", "r", "s", "t", "u", "v", "w", "x", "y", "z">>

IndexIn(alphabet, c) == CHOOSE k \in 1..Len(alphabet) : alphabet[k] = c
IsIn(alphabet, c) == \E k \in 1..Len(alphabet) : alphabet[k] = c

\* str.lower()
lower(tok) ==
    [k \in 1..Len(tok) |->
        IF IsIn(UpperCase, tok[k]) THEN LowerCase[IndexIn(UpperCase, tok[k])]
        ELSE tok[k]]

\* str.encode() of a token made of letters
encode(tok) ==
    [k \in 1..Len(tok) |->
        IF IsIn(UpperCase, tok[k]) THEN 64 + IndexIn(UpperCase, tok[k])
        ELSE 96 + IndexIn(LowerCase, tok[k])]

\* str.endswith(':')
endswith_colon(tok) == Len(tok) > 0 /\ tok[Len(tok)] = ":"

\* str.rstrip(':')
RECURSIVE rstrip_colon(_)
rstrip_colon(tok) ==
    IF endswith_colon(tok) THEN rstrip_colon(SubSeq(tok, 1, Len(tok) - 1)) ELSE tok

\* the keys of R_TYPE_INSTRUCTIONS
RTypeNames == {ins.name : ins \in R_TYPE_INSTRUCTIONS}

\* The variable context is local to parse_assembly and never returned; the
\* expressions of the lines below are decimal numerals, which eval accepts.
RECURSIVE parse_assembly_from(_, _, _)
parse_assembly_from(its, i, out) ==
    IF i > Len(its) THEN Returned(out)
    ELSE LET item == its[i] IN
         IF Len(item) = 1 /\ endswith_colon(item[1])
         THEN parse_assembly_from(its, i + 1, Append(out, Label(rstrip_colon(item[1]))))
         ELSE IF Len(item) >= 3 /\ item[2] = <<"=">>
         THEN parse_assembly_from(its, i + 1, out)
         ELSE IF lower(item[1]) = <<"b", "l", "o", "b">>
         THEN IF Len(item) < 2 THEN RaisedIn("IndexError")
              ELSE parse_assembly_from(its, i + 1, Append(out, Blob(encode(item[2]))))
         ELSE IF lower(item[1]) = <<"p", "a", "c", "k">>
         THEN IF Len(item) < 2 THEN RaisedIn("IndexError")
              ELSE RaisedIn("TypeError")     \* parse_immediate(item[2:]) lacks context
         ELSE IF lower(item[1]) \in RTypeNames
         THEN parse_assembly_from(its, i + 1, out)      \* pass
         ELSE RaisedIn("SystemExit")

parse_assembly(its) == parse_assembly_from(its, 1, <<>>)

(***************************************************************************)
(* Inputs: tokenized lines for parse_assembly, and items for programs      *)
(* that a caller builds from the namedtuples directly.                     *)
(***************************************************************************)
AddLine == << <<"a", "d", "d">>, <<"x", "1">>, <<"x", "2">>, <<"x", "3">> >>

Lines ==
    { AddLine,
      << <<"S", "U", "B">>, <<"x", "1">>, <<"x", "2">>, <<"x", "3">> >>,
      << <<"l", "o", "o", "p", ":">> >>,
      << <<"n">>, <<"=">>, <<"5">> >>,
      << <<"b", "l", "o", "b">>, <<"h", "i">> >>,
      << <<"p", "a", "c", "k">>, <<"<", "I">>, <<"5">> >>,
      << <<"j", "a", "l">>, <<"l", "o", "o", "p">> >> }

ItemLists == UNION {[1..n -> Lines] : n \in 0..MaxLines}

LabelA == <<"a">>
LabelLoop == <<"l", "o", "o", "p">>

ProgramItems ==
    { Label(LabelA), Label(LabelLoop),
      Align(4), Align(8),
      Blob(<<104, 105>>),
      Pack("<H", Literal(5)),
      Pack("<I", Position(LabelA, 0)),
      RTypeInstruction(<<"a", "d", "d">>, RegName("x1"), RegName("x2"), RegName("x3")),
      ITypeInstruction(<<"a", "d", "d", "i">>, RegName("x1"), RegName("x1"), Literal(5)),
      ITypeInstruction(<<"a", "d", "d", "i">>, RegName("x1"), RegName("x1"),
                       Position(LabelA, 4)),
      ITypeInstruction(<<"a", "d", "d", "i">>, RegName("x1"), RegName("x1"),
                       Lo(Position(LabelA, 4))),
      STypeInstruction(<<"s", "w">>, RegName("x1"), RegName("x2"), Lo(Literal(2049))),
      BTypeInstruction(<<"b", "e", "q">>, RegName("x1"), RegName("x2"), Offset(LabelA)),
      UTypeInstruction(<<"l", "u", "i">>, RegName("x1"), Literal(1)),
      UTypeInstruction(<<"l", "u", "i">>, RegName("x1"), Hi(Position(LabelA, 4))),
      JTypeInstruction(<<"j", "a", "l">>, RegNum(0), Offset(LabelLoop)) }

Programs == UNION {[1..n -> ProgramItems] : n \in 0..MaxLen}

(***************************************************************************)
(* The run: the program is built (from tokenized lines, or directly), then *)
(* the five passes run in the order of the module's comment.  pc names the *)
(* last step that completed; err is the exception that ended the run.      *)
(***************************************************************************)
Parse ==
    /\ pc = "start" /\ err = "none"
    /\ \E its \in ItemLists :
        LET r == parse_assembly(its) IN
        /\ items' = its
        /\ program' = r.out
        /\ err' = r.err
        /\ pc' = IF r.err = "none" THEN "built" ELSE pc
    /\ UNCHANGED <<aligned, labelled, labels, resolved, relocated, output>>
    /\ UNCHANGED fnVars

Build ==
    /\ pc = "start" /\ err = "none"
    /\ \E prog \in Programs : program' = prog
    /\ pc' = "built"
    /\ UNCHANGED <<items, aligned, labelled, labels, resolved, relocated, output, err>>
    /\ UNCHANGED fnVars

ResolveAligns ==
    /\ pc = "built" /\ err = "none"
    /\ aligned' = resolve_aligns(program)
    /\ pc' = "aligned"
    /\ UNCHANGED <<items, program, labelled, labels, resolved, relocated, output, err>>
    /\ UNCHANGED fnVars

ResolveLabels ==
    /\ pc = "aligned" /\ err = "none"
    /\ LET r == resolve_labels(aligned) IN
        /\ labelled' = r.output
        /\ labels' = r.labels
    /\ pc' = "labelled"
    /\ UNCHANGED <<items, program, aligned, resolved, relocated, output, err>>
    /\ UNCHANGED fnVars

ResolveImmediates ==
    /\ pc = "labelled" /\ err = "none"
    /\ LET r == resolve_immediates(labelled, labels) IN
        /\ resolved' = r.out
        /\ err' = r.err
        /\ pc' = IF r.err = "none" THEN "resolved" ELSE pc
    /\ UNCHANGED <<items, program, aligned, labelled, labels, relocated, output>>
    /\ UNCHANGED fnVars

ResolveRelocations ==
    /\ pc = "resolved" /\ err = "none"
    /\ LET r == resolve_relocations(resolved) IN
        /\ relocated' = r.out
        /\ err' = r.err
        /\ pc' = IF r.err = "none" THEN "relocated" ELSE pc
    /\ UNCHANGED <<items, program, aligned, labelled, labels, resolved, output>>
    /\ UNCHANGED fnVars

Assemble ==
    /\ pc = "relocated" /\ err = "none"
    /\ LET r == assemble(relocated) IN
        /\ output' = r.out
        /\ err' = r.err
        /\ pc' = IF r.err = "none" THEN "done" ELSE pc
    /\ UNCHANGED <<items, program, aligned, labelled, labels, resolved, relocated>>
    /\ UNCHANGED fnVars

Next ==
    \/ Parse
    \/ Build
    \/ ResolveAligns
    \/ ResolveLabels
    \/ ResolveImmediates
    \/ ResolveRelocations
    \/ Assemble

Spec == Init /\ [][Next]_vars

(***************************************************************************)
(* Properties of the passes, checked under Spec.                           *)
(***************************************************************************)
StageNo ==
    "start" :> 0 @@ "built" :> 1 @@ "aligned" :> 2 @@ "labelled" :> 3 @@
    "resolved" :> 4 @@ "relocated" :> 5 @@ "done" :> 6

\* the step named has completed
After(stage) == StageNo[pc] >= StageNo[stage]

\* the step that follows the one named has raised
FailedAfter(stage) == pc = stage /\ err # "none"

\* bytes an item contributes to the final image
EmittedLen(item) ==
    IF item.type = "Label" THEN 0
    ELSE IF item.type = "Blob" THEN Len(item.data)
    ELSE IF item.type = "Pack" THEN calcsize(item.fmt)
    ELSE 4

\* bytes of the image that precede item i of prog
RECURSIVE EmittedBefore(_, _)
EmittedBefore(prog, i) ==
    IF i <= 1 THEN 0 ELSE EmittedBefore(prog, i - 1) + EmittedLen(prog[i - 1])

HasImm(item) == item.type \in immediates

\* the label an immediate refers to, directly or inside Hi / Lo
RefersTo(imm) ==
    IF imm.type \in {"Position", "Offset"} THEN {imm.label}
    ELSE IF imm.type \in {"Hi", "Lo"} /\ imm.value.type \in {"Position", "Offset"}
    THEN {imm.value.label}
    ELSE {}

\* C2: after resolve_aligns and resolve_labels, the offset recorded for each
\* (singly declared) label is the sum of the emitted byte lengths of the
\* non-Label items that precede it in the align-resolved list, and no Label
\* item is forwarded.
C2_LabelOffsets ==
    After("labelled") =>
        /\ \A i \in 1..Len(aligned) :
            (/\ aligned[i].type = "Label"
             /\ \A j \in 1..Len(aligned) :
                    (j # i /\ aligned[j].type = "Label") => aligned[j].name # aligned[i].name)
            => /\ aligned[i].name \in DOMAIN labels
               /\ labels[aligned[i].name] = EmittedBefore(aligned, i)
        /\ \A k \in 1..Len(labelled) : labelled[k].type # "Label"

\* what C3 says resolve_aligns returns: position counts emitted bytes, a
\* Label contributing none
RECURSIVE PaddedFrom(_, _, _, _)
PaddedFrom(prog, i, position, out) ==
    IF i > Len(prog) THEN out
    ELSE LET item == prog[i] IN
         IF item.type = "Align"
         THEN IF position % item.alignment = 0
              THEN PaddedFrom(prog, i + 1, position, out)
              ELSE LET padding == item.alignment - (position % item.alignment) IN
                   PaddedFrom(prog, i + 1, position + padding,
                              Append(out, Blob(ZeroBytes(padding))))
         ELSE PaddedFrom(prog, i + 1, position + EmittedLen(item), Append(out, item))

\* C3: at every Align(n) resolve_aligns brings the emitted byte length (a
\* Label contributing 0 bytes) to a multiple of n, with a zero Blob of
\* n - (position mod n) bytes, or nothing when position is a multiple of n;
\* the other items are forwarded unchanged and in order.  In particular a
\* program that ends with Align(n) yields an image of a multiple of n bytes.
C3_AlignPadding ==
    After("aligned") =>
        /\ aligned = PaddedFrom(program, 1, 0, <<>>)
        /\ (Len(program) > 0 /\ program[Len(program)].type = "Align") =>
               EmittedBefore(aligned, Len(aligned) + 1)
                   % program[Len(program)].alignment = 0

\* two Label items of the list carry the same name
HasDuplicateLabel(prog) ==
    \E i, j \in 1..Len(prog) :
        i < j /\ prog[i].type = "Label" /\ prog[j].type = "Label"
              /\ prog[i].name = prog[j].name

\* C4: when the program holds two Label items of the same name,
\* resolve_labels ends in a fatal error and yields neither a label table
\* nor an output list.
C4_DuplicateLabel ==
    (HasDuplicateLabel(aligned) /\ (After("labelled") \/ FailedAfter("aligned"))) =>
        /\ FailedAfter("aligned")
        /\ labels = <<>>
        /\ labelled = <<>>

\* resolve_immediates has run (to completion or to an exception)
Pass3Ran == After("resolved") \/ FailedAfter("labelled")

\* every symbolic immediate of the list is of the kind given and refers to
\* a label of the table
OnlyRefs(prog, kind) ==
    \A i \in 1..Len(prog) :
        (HasImm(prog[i]) /\ prog[i].imm.type # "int") =>
            (prog[i].imm.type = kind /\ prog[i].imm.label \in DOMAIN labels)

\* C5: resolve_immediates replaces Offset(label), label in the table, by
\* table[label] - p, p being the byte offset of the item itself (so the jal
\* of `loop: jal loop` gets 0); a label that is not in the table is a fatal
\* error.
C5_OffsetResolution ==
    Pass3Ran =>
        /\ OnlyRefs(labelled, "Offset") =>
            /\ After("resolved")
            /\ Len(resolved) = Len(labelled)
            /\ \A i \in 1..Len(labelled) :
                (HasImm(labelled[i]) /\ labelled[i].imm.type = "Offset") =>
                    resolved[i].imm =
                        Literal(labels[labelled[i].imm.label] - EmittedBefore(labelled, i))
        /\ (\E i \in 1..Len(labelled) :
                /\ HasImm(labelled[i])
                /\ labelled[i].imm.type = "Offset"
                /\ labelled[i].imm.label \notin DOMAIN labels)
            => FailedAfter("labelled")

\* C6: resolve_immediates replaces Position(label, base), label in the
\* table, by table[label] + base, whatever the position of the item.
C6_PositionResolution ==
    (Pass3Ran /\ OnlyRefs(labelled, "Position")) =>
        /\ After("resolved")
        /\ Len(resolved) = Len(labelled)
        /\ \A i \in 1..Len(labelled) :
            (HasImm(labelled[i]) /\ labelled[i].imm.type = "Position") =>
                resolved[i].imm =
                    Literal(labels[labelled[i].imm.label] + labelled[i].imm.value)

\* the run is over: assemble returned, or some step raised
Finished == pc = "done" \/ err # "none"

\* C9: the line `add x1, x2, x3` assembles to the bytes B3 00 31 00, and
\* every line of an R-type mnemonic yields one RTypeInstruction item that is
\* assembled to one 4-byte word.
C9_EndToEnd ==
    /\ (items = <<AddLine>> /\ Finished) =>
           (err = "none" /\ output = <<179, 0, 49, 0>>)
    /\ (Len(items) = 1 /\ lower(items[1][1]) \in RTypeNames /\ Finished) =>
           /\ err = "none"
           /\ Len(program) = 1
           /\ program[1].type = "RTypeInstruction"
           /\ Len(output) = 4

\* C10: when every label referred to is defined, resolve_immediates and
\* resolve_relocations both return, and then every immediate is a plain
\* integer, an item whose immediate was a plain literal being unchanged.
C10_PlainImmediates ==
    (After("labelled")
        /\ \A i \in 1..Len(labelled) :
               HasImm(labelled[i]) => RefersTo(labelled[i].imm) \subseteq DOMAIN labels) =>
        /\ ~FailedAfter("labelled")
        /\ ~FailedAfter("resolved")
        /\ After("relocated") =>
            /\ Len(relocated) = Len(labelled)
            /\ \A i \in 1..Len(relocated) :
                HasImm(relocated[i]) =>
                    /\ relocated[i].imm.type = "int"
                    /\ labelled[i].imm.type = "int" => relocated[i] = labelled[i]

====
